---- MODULE Spec2Model ----
(***************************************************************************)
(* Vevu quiz backend: the settlement engine (quiz.py), the wallet ledger   *)
(* (wallet.py, admin_routes.py) and the spin wheel (spinwheel.py) as a     *)
(* state machine over the rows of the users, game_sessions, transactions   *)
(* and spin_history tables.                                                *)
(*                                                                         *)
(* Money is held in kobo (1/100 naira) so that the float products of the   *)
(* source (x 2.5, x 4.5, x 6.5, x 0.10) are exact on whole-naira amounts.  *)
(* Timestamps, the ActivityLog rows and is_online are write-only in the    *)
(* handlers modelled here and are left out.  The ORM is taken to store     *)
(* every field a handler names.                                            *)
(***************************************************************************)
EXTENDS Integers, Sequences, FiniteSets, TLC

VARIABLES users, games, txs, spins, qstats, today, resp, reqs, recent_questions

vars == <<users, games, txs, spins, qstats, today, resp, reqs, recent_questions>>

(* ----------------------------- bounds ---------------------------------- *)
MaxTx == 2
MaxGames == 2
MaxPlays == 2
MaxAdjust == 1
MaxRecent == 3
MaxQuits == 1

(* ------------------------ program constants ---------------------------- *)
Naira(n) == n * 100

PLATFORM_FEE_PCT == 10
WELCOME_BONUS == 30
MIN_STAKE == 10
MAX_STAKE == 100000
QUICK_STAKE == 100
QUICK_QUESTIONS == 10
QUICK_MULT10 == 30

MIN_DEPOSIT == 50
MIN_WITHDRAWAL == 500
MAX_WITHDRAWAL == 5000000
FREE_SPINS_DAILY == 10
SPIN_COST == 50
TEST_USER_BALANCE == 1000

(* u1 and u2 are registered accounts; the spin wheel handlers act on the  *)
(* fixed account 'test-user-id', which get_spin_status creates.            *)
Players == {"u1", "u2"}
TestUser == "test-user-id"
Users == Players \cup {TestUser}
(* the accounts whose starts and adjustments the model follows; the other *)
(* account only submits                                                    *)
Starters == {"u1"}

None == "none"

(* level_config of level_quiz_start; multipliers are held times ten *)
LevelNames == {"good", "smart", "best"}
level_config(level) ==
    CASE level = "good"  -> [questions |-> 45, required |-> 40, mult10 |-> 25]
      [] level = "smart" -> [questions |-> 65, required |-> 58, mult10 |-> 45]
      [] level = "best"  -> [questions |-> 85, required |-> 73, mult10 |-> 65]

(* amount * Config.PLATFORM_FEE *)
calculate_platform_fee(amount) == (amount * PLATFORM_FEE_PCT) \div 100

(* stake * multiplier, the multiplier given times ten *)
Pot(stake, mult10) == (stake * mult10) \div 10

(* --------------------------- question bank ----------------------------- *)
(* The questions table: ids 1..11 are the active 'quick' questions,        *)
(* 101..145 the active 'good' ones, 201..202 'smart' (too few for a smart  *)
(* session), 12 an inactive quick question.  No 'best' question exists.    *)
QuickIds == 1..12
GoodIds == 101..145
SmartIds == 201..202
QIds == QuickIds \cup GoodIds \cup SmartIds

questions ==
    [q \in QIds |->
       [level |-> IF q \in QuickIds THEN "quick"
                  ELSE IF q \in GoodIds THEN "good" ELSE "smart",
        correct_answer |-> q % 4,
        is_active |-> q # 12]]

(* Question.query.get(q_id) *)
Question(q) == questions[q]

ActiveOfLevel(level) == {q \in QIds : Question(q).level = level /\ Question(q).is_active}

RECURSIVE DropSets(_, _)
DropSets(pool, k) ==
    IF k = 0 THEN {{}}
    ELSE {D \cup {x} : D \in DropSets(pool, k - 1), x \in pool}

(* Question.query.filter_by(level, is_active).order_by(random()).limit(n):  *)
(* every n-subset of the active questions of the level, or all of them      *)
(* when fewer than n exist.                                                 *)
(* The model draws the questions left out among LeftOut.                   *)
LeftOut == {10, 11}
RandomLimit(level, n) ==
    LET pool == ActiveOfLevel(level)
        c == Cardinality(pool)
    IN IF c <= n THEN {pool}
       ELSE {pool \ D : D \in {X \in DropSets(pool \cap LeftOut, c - n) :
                                    Cardinality(X) = c - n}}
QuickDraws == RandomLimit("quick", QUICK_QUESTIONS)
LevelDraws == [level \in LevelNames |-> RandomLimit(level, level_config(level).questions)]

(* random.shuffle(pairs): the orders of the four (index, option) pairs the  *)
(* model draws from, as sequences of original indices.                      *)
Rot(k) == [i \in 1..4 |-> ((i - 1) + k) % 4]
ShufflePerms == {Rot(0), Rot(1)}

(* a correct index that does not follow the shuffle *)
NewCorrect_unmoved(pairs, correct_idx) == correct_idx

(* next(i for i, (idx, _) in enumerate(pairs) if idx == correct_idx) *)
NewCorrect(pairs, correct_idx) == (CHOOSE i \in 1..4 : pairs[i] = correct_idx) - 1

QuestionMap(qs, pairs) ==
    [q \in qs |-> [correct |-> Question(q).correct_answer,
                   shuffled |-> NewCorrect(pairs, Question(q).correct_answer)]]

(* ------------------------------ rows ----------------------------------- *)
(* auth.register: a new account holds the welcome bonus; no date of a     *)
(* spin reset is stored yet (-1)                                           *)
NewUser ==
    [balance |-> Naira(WELCOME_BONUS), total_earned |-> Naira(WELCOME_BONUS),
     total_withdrawn |-> 0, games_played |-> 0, wins |-> 0,
     free_spins |-> FREE_SPINS_DAILY, last_spin_reset |-> -1, current_game_id |-> 0]

(* get_spin_status: the test account as it is created on day 0 *)
NewTestUser ==
    [balance |-> Naira(TEST_USER_BALANCE), total_earned |-> 0,
     total_withdrawn |-> 0, games_played |-> 0, wins |-> 0,
     free_spins |-> 10, last_spin_reset |-> 0, current_game_id |-> 0]

(* the handler that answered last, its HTTP status, and of an accepted    *)
(* start or submit the game and the score, won and prize of the reply     *)
(* and of a verification the triple checked (args), the triple the prize  *)
(* was drawn with (drawn) and the verdict, and of a question selection the *)
(* list returned (questions)                                               *)
NoResp == [op |-> "none", code |-> 0, game |-> 0, score |-> 0, won |-> FALSE, prize |-> 0,
           args |-> <<>>, drawn |-> <<>>, is_valid |-> FALSE, questions |-> <<>>]

Reply(op, u, code) == [NoResp EXCEPT !.op = op, !.code = code]

(* the request handlers of the pool; a handler that has read its rows and *)
(* not yet committed holds them in reqs                                    *)
Workers == {"w1", "w2"}
Idle == [op |-> "idle"]

(* QuestionService.recent_questions: no account is tracked yet *)
NoRecent == [u \in {} |-> <<>>]

NewStats == [times_used |-> 0, correct_count |-> 0, wrong_count |-> 0]

Init ==
    /\ users = [u \in Users |-> IF u = TestUser THEN NewTestUser ELSE NewUser]
    /\ today = 0
    /\ recent_questions = NoRecent
    /\ games = <<>>
    /\ txs = <<>>
    /\ spins = <<>>
    /\ qstats = [q \in QIds |-> NewStats]
    /\ resp = NoResp
    /\ reqs = [w \in Workers |-> Idle]

(* Transaction.reference is unique: an insert of a reference already       *)
(* stored fails the commit.                                                *)
RefTaken(ref) == \E i \in 1..Len(txs) : txs[i].reference = ref

NoMeta == [action |-> None, server_seed |-> 0, client_seed |-> 0, nonce |-> 0,
           random_number |-> 0]

Tx(u, gid, ref, type, amount, fee, status) ==
    [user_id |-> u, game_id |-> gid, reference |-> ref, type |-> type,
     amount |-> amount, fee |-> fee, status |-> status, metadata |-> NoMeta]


(* ------------------------- request inputs ------------------------------ *)
QIdSeq == [i \in 1..12 |-> i] \o [i \in 1..45 |-> 100 + i] \o [i \in 1..2 |-> 200 + i]
InSet(S) == LET Test(q) == q \in S IN SelectSeq(QIdSeq, Test)
SortedSeq(S) == InSet(S)

(* An answer list over the questions qs: the first c answered with the     *)
(* question's correct index, the next w with another index.                *)
Sheet(qs, c, w) ==
    LET order == SortedSeq(qs)
    IN [i \in 1..(c + w) |->
          [question_id |-> order[i],
           answer_index |-> IF i <= c THEN Question(order[i]).correct_answer
                            ELSE (Question(order[i]).correct_answer + 1) % 4]]

(* n correct answers to one and the same question *)
RepeatSheet(q, n) ==
    [i \in 1..n |-> [question_id |-> q, answer_index |-> Question(q).correct_answer]]

SheetShapes == {<<10, 0>>, <<9, 1>>, <<40, 5>>, <<39, 6>>, <<10, 35>>}

Sheets(qs) ==
    {Sheet(qs, sh[1], sh[2]) : sh \in {x \in SheetShapes : x[1] + x[2] = Cardinality(qs)}}
      \cup {<<>>}

StakeInputs == {0, Naira(5), Naira(20), Naira(100), Naira(100001)}
LevelInputs == LevelNames \cup {"bogus"}
AdminAmounts == {Naira(20), Naira(70)}
AdminActions == {"add", "deduct", "bogus"}
FundingActions == {"add"}

(* --------------------------- code conditions --------------------------- *)
(* a balance check that never refuses *)
Insufficient_never(balance, amount) == FALSE

(* current_user.balance < stake -> 'Insufficient balance' *)
Insufficient(balance, amount) == balance < amount

(* a grading that believes the correctness the client sent *)
IsCorrect_claimed(ans) == ans.is_correct

(* quick_play_submit: is_correct = (user_choice == question.correct_answer) *)
IsCorrect(ans) == ans.answer_index = Question(ans.question_id).correct_answer

(* the scoring loop: answers to unknown question ids are skipped *)
RECURSIVE Score(_)
Score(answers) ==
    IF answers = <<>> THEN 0
    ELSE LET a == Head(answers)
         IN (IF a.question_id \in QIds /\ IsCorrect(a) THEN 1 ELSE 0)
              + Score(Tail(answers))

(* Question.update_stats, applied by the scoring loop to every answer *)
update_stats(st, was_correct) ==
    [times_used |-> st.times_used + 1,
     correct_count |-> st.correct_count + (IF was_correct THEN 1 ELSE 0),
     wrong_count |-> st.wrong_count + (IF was_correct THEN 0 ELSE 1)]

(* success_rate = correct_count / times_used * 100, in whole percent *)
success_rate(st) ==
    IF st.times_used > 0 THEN (st.correct_count * 100) \div st.times_used ELSE 0

RECURSIVE StatsAfter(_, _)
StatsAfter(stats, answers) ==
    IF answers = <<>> THEN stats
    ELSE LET a == Head(answers)
             next == IF a.question_id \in QIds
                     THEN [stats EXCEPT ![a.question_id] = update_stats(@, IsCorrect(a))]
                     ELSE stats
         IN StatsAfter(next, Tail(answers))

(* won = (score == 10) *)
Won(game, score) == score = 10

(* gross_win = game.stake * 3; fee = calculate_platform_fee(gross_win) *)
GrossWin(game) == Pot(game.stake, QUICK_MULT10)
WinFee(game) == calculate_platform_fee(GrossWin(game))
WinPrize(game) == GrossWin(game) - WinFee(game)

(* ------------------------------ handlers ------------------------------- *)
Reject(op, u, code) ==
    /\ resp' = Reply(op, u, code)
    /\ UNCHANGED <<users, games, txs, spins, qstats, today, reqs, recent_questions>>

(* a start that forgets the stake transaction *)
StartCommit_no_tx(op, u, su, game, stake) ==
    LET gid == Len(games) + 1
    IN /\ games' = Append(games, game)
       /\ users' = [users EXCEPT ![u].balance = su.balance - stake,
                                 ![u].current_game_id = gid]
       /\ txs' = txs
       /\ resp' = [Reply(op, u, 200) EXCEPT !.game = gid]
       /\ UNCHANGED <<spins, qstats>>

(* The commit of a start: the session row, the stake debit computed from   *)
(* the balance the handler read (su), and the stake transaction.           *)
StartCommit(op, u, su, game, stake) ==
    LET gid == Len(games) + 1
    IN /\ games' = Append(games, game)
       /\ users' = [users EXCEPT ![u].balance = su.balance - stake,
                                 ![u].current_game_id = gid]
       /\ txs' = Append(txs, Tx(u, gid, <<"STAKE", gid>>, "stake", stake, 0, "completed"))
       /\ resp' = [Reply(op, u, 200) EXCEPT !.game = gid]
       /\ UNCHANGED <<spins, qstats>>

QuickGame(u, qs, pairs) ==
    [game_type |-> "quick", level |-> None, status |-> "active",
     stake |-> Naira(QUICK_STAKE),
     platform_fee |-> calculate_platform_fee(Pot(Naira(QUICK_STAKE), QUICK_MULT10)),
     total_pot |-> Pot(Naira(QUICK_STAKE), QUICK_MULT10),
     max_players |-> 1, current_players |-> 1,
     total_questions |-> QUICK_QUESTIONS, required_correct |-> 0,
     question_data |-> QuestionMap(qs, pairs),
     created_by |-> u, winner_id |-> None]

quick_play_start(u) ==
    IF Insufficient(users[u].balance, Naira(QUICK_STAKE))
    THEN Reject("quick_start", u, 400)
    ELSE \E qs \in QuickDraws :
           IF Cardinality(qs) < QUICK_QUESTIONS
           THEN Reject("quick_start", u, 500)
           ELSE /\ Len(games) < MaxGames /\ Len(txs) < MaxTx
                /\ \E pairs \in ShufflePerms :
                     StartCommit("quick_start", u, users[u], QuickGame(u, qs, pairs),
                                 Naira(QUICK_STAKE))
                /\ UNCHANGED <<today, reqs, recent_questions>>

LevelGame(u, level, stake, qs, pairs) ==
    LET config == level_config(level)
    IN [game_type |-> "level", level |-> level, status |-> "active",
        stake |-> stake,
        platform_fee |-> calculate_platform_fee(Pot(stake, config.mult10)),
        total_pot |-> Pot(stake, config.mult10),
        max_players |-> 1, current_players |-> 1,
        total_questions |-> config.questions, required_correct |-> config.required,
        question_data |-> QuestionMap(qs, pairs),
        created_by |-> u, winner_id |-> None]

(* a level start that commits the stake debit before it looks at the pool *)
level_quiz_start_debit_first(u, level, stake) ==
    IF stake = 0 THEN Reject("level_start", u, 400)
    ELSE IF stake < Naira(MIN_STAKE) THEN Reject("level_start", u, 400)
    ELSE IF stake > Naira(MAX_STAKE) THEN Reject("level_start", u, 400)
    ELSE IF Insufficient(users[u].balance, stake) THEN Reject("level_start", u, 400)
    ELSE IF level \notin LevelNames THEN Reject("level_start", u, 400)
    ELSE \E qs \in LevelDraws[level] :
           IF Cardinality(qs) < level_config(level).questions
           THEN /\ users' = [users EXCEPT ![u].balance = @ - stake]
                /\ resp' = Reply("level_start", u, 500)
                /\ UNCHANGED <<games, txs, spins, qstats, today, reqs, recent_questions>>
           ELSE /\ Len(games) < MaxGames /\ Len(txs) < MaxTx
                /\ \E pairs \in ShufflePerms :
                     StartCommit("level_start", u, users[u],
                                 LevelGame(u, level, stake, qs, pairs), stake)
                /\ UNCHANGED <<today, reqs, recent_questions>>

level_quiz_start(u, level, stake) ==
    IF stake = 0 THEN Reject("level_start", u, 400)
    ELSE IF stake < Naira(MIN_STAKE) THEN Reject("level_start", u, 400)
    ELSE IF stake > Naira(MAX_STAKE) THEN Reject("level_start", u, 400)
    ELSE IF Insufficient(users[u].balance, stake) THEN Reject("level_start", u, 400)
    ELSE IF level \notin LevelNames THEN Reject("level_start", u, 400)
    ELSE \E qs \in LevelDraws[level] :
           IF Cardinality(qs) < level_config(level).questions
           THEN Reject("level_start", u, 500)
           ELSE /\ Len(games) < MaxGames /\ Len(txs) < MaxTx
                /\ \E pairs \in ShufflePerms :
                     StartCommit("level_start", u, users[u],
                                 LevelGame(u, level, stake, qs, pairs), stake)
                /\ UNCHANGED <<today, reqs, recent_questions>>

(* The commit of a submit that read the user row su and the game row sg:   *)
(* fails as a whole when the WIN reference is already stored.              *)
SubmitCommit(u, su, gid, sg, answers) ==
    LET score == Score(answers)
        won == Won(sg, score)
        prize == IF won THEN WinPrize(sg) ELSE 0
    IN IF won /\ RefTaken(<<"WIN", gid>>)
       THEN /\ resp' = Reply("submit", u, 500)
            /\ UNCHANGED <<users, games, txs, spins, qstats>>
       ELSE /\ users' = [users EXCEPT
                 ![u].balance = IF won THEN su.balance + prize ELSE @,
                 ![u].total_earned = IF won THEN su.total_earned + prize ELSE @,
                 ![u].wins = IF won THEN su.wins + 1 ELSE @,
                 ![u].current_game_id = 0,
                 ![u].games_played = su.games_played + 1]
            /\ txs' = IF won
                      THEN Append(txs, Tx(u, gid, <<"WIN", gid>>, "win", prize,
                                          WinFee(sg), "completed"))
                      ELSE txs
            /\ games' = [games EXCEPT ![gid].status = "completed",
                                      ![gid].winner_id = IF won THEN u ELSE @]
            /\ qstats' = StatsAfter(qstats, answers)
            /\ resp' = [Reply("submit", u, 200) EXCEPT !.game = gid, !.score = score,
                                                       !.won = won, !.prize = prize]
            /\ UNCHANGED spins

quick_play_submit(u, gid, answers) ==
    IF gid = 0 \/ answers = <<>> THEN Reject("submit", u, 400)
    ELSE IF gid \notin 1..Len(games) THEN Reject("submit", u, 404)
    ELSE IF games[gid].created_by # u THEN Reject("submit", u, 403)
    ELSE /\ users[u].games_played < MaxPlays
         /\ Score(answers) = 10 => Len(txs) < MaxTx
         /\ SubmitCommit(u, users[u], gid, games[gid], answers)
         /\ UNCHANGED <<today, reqs, recent_questions>>

(* admin_routes.adjust_user_balance *)
adjust_user_balance(u, amount, action) ==
    IF amount = 0 THEN Reject("adjust", u, 400)
    ELSE IF action = "deduct" /\ Insufficient(users[u].balance, amount)
    THEN Reject("adjust", u, 400)
    ELSE IF action \notin {"add", "deduct"} THEN Reject("adjust", u, 400)
    ELSE /\ Len(txs) < MaxTx
         /\ users' = [users EXCEPT ![u].balance =
                          IF action = "add" THEN @ + amount ELSE @ - amount]
         /\ txs' = Append(txs,
               [Tx(u, 0, <<"ADMIN", Len(txs) + 1>>, "admin_adjustment", amount, 0,
                   "completed") EXCEPT !.metadata.action = action])
         /\ resp' = Reply("adjust", u, 200)
         /\ UNCHANGED <<games, spins, qstats, today, reqs, recent_questions>>

(* ------------------------------ battles -------------------------------- *)
BattleGame(u, stake, max_players) ==
    [game_type |-> "battle", level |-> None, status |-> "waiting",
     stake |-> stake,
     platform_fee |-> calculate_platform_fee(stake * max_players),
     total_pot |-> stake * max_players,
     max_players |-> max_players, current_players |-> 1,
     total_questions |-> 50, required_correct |-> 0,
     question_data |-> [q \in {} |-> 0],
     created_by |-> u, winner_id |-> None]

create_battle(u, stake, max_players) ==
    IF stake = 0 THEN Reject("create_battle", u, 400)
    ELSE IF Insufficient(users[u].balance, stake) THEN Reject("create_battle", u, 400)
    ELSE LET gid == Len(games) + 1
         IN /\ Len(games) < MaxGames /\ Len(txs) < MaxTx
            /\ games' = Append(games, BattleGame(u, stake, max_players))
            /\ users' = [users EXCEPT ![u].balance = @ - stake,
                                      ![u].current_game_id = gid]
            /\ txs' = Append(txs, Tx(u, gid, <<"BATTLE", gid>>, "stake", stake, 0,
                                     "completed"))
            /\ resp' = [Reply("create_battle", u, 201) EXCEPT !.game = gid]
            /\ UNCHANGED <<spins, qstats, today, reqs, recent_questions>>

(* a join that does not look at the player count *)
join_battle_any_count(u, gid) ==
    IF gid = 0 THEN Reject("join_battle", u, 400)
    ELSE IF gid \notin 1..Len(games) THEN Reject("join_battle", u, 404)
    ELSE IF games[gid].status # "waiting" THEN Reject("join_battle", u, 400)
    ELSE IF Insufficient(users[u].balance, games[gid].stake)
    THEN Reject("join_battle", u, 400)
    ELSE IF RefTaken(<<"JOIN", gid, u>>) THEN Reject("join_battle", u, 500)
    ELSE /\ Len(txs) < MaxTx
         /\ games' = [games EXCEPT
               ![gid].current_players = @ + 1,
               ![gid].status = IF games[gid].current_players + 1 >= games[gid].max_players
                               THEN "ready" ELSE @]
         /\ users' = [users EXCEPT ![u].balance = @ - games[gid].stake,
                                   ![u].current_game_id = gid]
         /\ txs' = Append(txs, Tx(u, gid, <<"JOIN", gid, u>>, "stake", games[gid].stake,
                                  0, "completed"))
         /\ resp' = [Reply("join_battle", u, 200) EXCEPT !.game = gid]
         /\ UNCHANGED <<spins, qstats, today, reqs, recent_questions>>

join_battle(u, gid) ==
    IF gid = 0 THEN Reject("join_battle", u, 400)
    ELSE IF gid \notin 1..Len(games) THEN Reject("join_battle", u, 404)
    ELSE IF games[gid].status # "waiting" THEN Reject("join_battle", u, 400)
    ELSE IF games[gid].current_players >= games[gid].max_players
    THEN Reject("join_battle", u, 400)
    ELSE IF Insufficient(users[u].balance, games[gid].stake)
    THEN Reject("join_battle", u, 400)
    ELSE IF RefTaken(<<"JOIN", gid, u>>) THEN Reject("join_battle", u, 500)
    ELSE /\ Len(txs) < MaxTx
         /\ games' = [games EXCEPT
               ![gid].current_players = @ + 1,
               ![gid].status = IF games[gid].current_players + 1 >= games[gid].max_players
                               THEN "ready" ELSE @]
         /\ users' = [users EXCEPT ![u].balance = @ - games[gid].stake,
                                   ![u].current_game_id = gid]
         /\ txs' = Append(txs, Tx(u, gid, <<"JOIN", gid, u>>, "stake", games[gid].stake,
                                  0, "completed"))
         /\ resp' = [Reply("join_battle", u, 200) EXCEPT !.game = gid]
         /\ UNCHANGED <<spins, qstats, today, reqs, recent_questions>>

(* a quit that puts the session back to waiting *)
quit_battle_reopen(u, gid) ==
    IF gid = 0 THEN Reject("quit_battle", u, 400)
    ELSE IF gid \notin 1..Len(games) THEN Reject("quit_battle", u, 404)
    ELSE /\ games[gid].current_players > 0 - MaxQuits
         /\ games' = [games EXCEPT ![gid].current_players = @ - 1,
                                   ![gid].status = "waiting"]
         /\ users' = [users EXCEPT ![u].current_game_id = 0]
         /\ resp' = [Reply("quit_battle", u, 200) EXCEPT !.game = gid]
         /\ UNCHANGED <<txs, spins, qstats, today, reqs, recent_questions>>

(* quit_battle: no membership and no status test; the count goes down and  *)
(* no balance or transaction is written                                    *)
quit_battle(u, gid) ==
    IF gid = 0 THEN Reject("quit_battle", u, 400)
    ELSE IF gid \notin 1..Len(games) THEN Reject("quit_battle", u, 404)
    ELSE /\ games[gid].current_players > 0 - MaxQuits
         /\ games' = [games EXCEPT ![gid].current_players = @ - 1]
         /\ users' = [users EXCEPT ![u].current_game_id = 0]
         /\ resp' = [Reply("quit_battle", u, 200) EXCEPT !.game = gid]
         /\ UNCHANGED <<txs, spins, qstats, today, reqs, recent_questions>>

(* ----------------------------- spin wheel ------------------------------ *)
WHEEL_SEGMENTS ==
    << [prize |-> 10, probability |-> 30], [prize |-> 20, probability |-> 25],
       [prize |-> 50, probability |-> 15], [prize |-> 100, probability |-> 10],
       [prize |-> 200, probability |-> 8], [prize |-> 500, probability |-> 5],
       [prize |-> 1000, probability |-> 4], [prize |-> 2000, probability |-> 3] >>

(* hashlib.sha256(f"{server_seed}:{client_seed}:{nonce}").hexdigest()[:8]  *)
(* for server seeds 1..3, client seeds 1..2 and nonces 0..5: the eight hex *)
(* digits as two 16-bit halves, indexed [server_seed][client_seed][nonce+1] *)
SHA256Prefix ==
 <<
    << << <<37168, 45397>>, <<39758, 16292>>, <<37564, 12497>>,
          <<8734, 14151>>, <<57609, 18188>>, <<49426, 744>> >>,
       << <<56951, 54936>>, <<22316, 29482>>, <<57001, 6033>>,
          <<63236, 23022>>, <<58079, 62478>>, <<37301, 54774>> >> >>,
    << << <<26490, 61822>>, <<39015, 3662>>, <<14020, 6187>>,
          <<32200, 1074>>, <<10931, 21557>>, <<32966, 55895>> >>,
       << <<39997, 62301>>, <<48381, 58916>>, <<40325, 30439>>,
          <<38385, 19831>>, <<64645, 12910>>, <<50521, 33670>> >> >>,
    << << <<30112, 24013>>, <<15886, 34977>>, <<32327, 8755>>,
          <<50710, 57505>>, <<56127, 28987>>, <<37569, 64433>> >>,
       << <<42903, 16169>>, <<5873, 23509>>, <<23340, 9006>>,
          <<14611, 62530>>, <<44838, 38282>>, <<33559, 25596>> >> >>
 >>

HashPrefix(server_seed, client_seed, nonce) ==
    SHA256Prefix[server_seed][client_seed][nonce + 1]

(* int(hash_result[:8], 16) % 10000, on the two halves *)
Mod10000(h) == ((h[1] % 10000) * (65536 % 10000) + h[2]) % 10000

(* a selection whose bounds are inclusive *)
RECURSIVE SegmentAt_inclusive(_, _, _)
SegmentAt_inclusive(random_number, i, cumulative) ==
    IF i > Len(WHEEL_SEGMENTS) THEN WHEEL_SEGMENTS[Len(WHEEL_SEGMENTS)]
    ELSE IF random_number <= cumulative + WHEEL_SEGMENTS[i].probability * 100
         THEN WHEEL_SEGMENTS[i]
         ELSE SegmentAt_inclusive(random_number, i + 1,
                                  cumulative + WHEEL_SEGMENTS[i].probability * 100)

(* the loop over WHEEL_SEGMENTS with its running bound, and the fallback   *)
(* to the last segment after the loop                                      *)
RECURSIVE SegmentAt(_, _, _)
SegmentAt(random_number, i, cumulative) ==
    IF i > Len(WHEEL_SEGMENTS) THEN WHEEL_SEGMENTS[Len(WHEEL_SEGMENTS)]
    ELSE IF random_number < cumulative + WHEEL_SEGMENTS[i].probability * 100
         THEN WHEEL_SEGMENTS[i]
         ELSE SegmentAt(random_number, i + 1,
                        cumulative + WHEEL_SEGMENTS[i].probability * 100)

(* a draw that mixes the number of spins made so far into the nonce *)
calculate_result_counting(server_seed, client_seed, nonce) ==
    LET hash_result == HashPrefix(server_seed, client_seed, nonce + Len(spins))
        random_number == Mod10000(hash_result)
    IN [prize |-> SegmentAt(random_number, 1, 0).prize, random_number |-> random_number,
        hash_result |-> hash_result]

calculate_result(server_seed, client_seed, nonce) ==
    LET hash_result == HashPrefix(server_seed, client_seed, nonce)
        random_number == Mod10000(hash_result)
    IN [prize |-> SegmentAt(random_number, 1, 0).prize, random_number |-> random_number,
        hash_result |-> hash_result]

(* ProvablyFairSpin.verify_spin *)
verify_spin(server_seed, client_seed, nonce, expected_prize) ==
    calculate_result(server_seed, client_seed, nonce).prize = expected_prize

SpinCount(u) == Cardinality({i \in 1..Len(spins) : spins[i].user_id = u})

(* the seeds a spin may generate *)
ServerSeeds == {1, 2}
ClientSeeds == {1}

(* The commit of a spin: the account as computed from the row the handler  *)
(* read (su, its free spins after the daily reset in free), the spin       *)
(* record, which is given no seed and no nonce, and the spin_win           *)
(* transaction whose metadata holds the triple.                            *)
SpinCommit(u, su, free, use_free_spin, buy_spin, server_seed, client_seed, nonce) ==
    LET result == calculate_result(server_seed, client_seed, nonce)
        prize == Naira(result.prize)
        cost == IF ~use_free_spin /\ buy_spin THEN Naira(SPIN_COST) ELSE 0
    IN /\ users' = [users EXCEPT
             ![u].free_spins = IF use_free_spin THEN free - 1 ELSE free,
             ![u].last_spin_reset = today,
             ![u].balance = su.balance - cost + prize,
             ![u].total_earned = su.total_earned + prize]
       /\ spins' = Append(spins,
             [user_id |-> u, amount_won |-> prize, used_free_spin |-> use_free_spin,
              spin_cost |-> IF use_free_spin THEN 0 ELSE Naira(SPIN_COST),
              server_seed |-> None, client_seed |-> None, nonce |-> None])
       /\ txs' = Append(txs,
             [Tx(u, 0, <<"SPIN", Len(txs) + 1>>, "spin_win", prize, 0, "completed")
                EXCEPT !.metadata = [action |-> None,
                                     server_seed |-> server_seed,
                                     client_seed |-> client_seed,
                                     nonce |-> nonce,
                                     random_number |-> result.random_number]])
       /\ resp' = [Reply("spin", u, 200) EXCEPT !.prize = prize]
       /\ UNCHANGED <<games, qstats>>

spin_wheel(use_free_spin, buy_spin, server_seed, client_seed) ==
    LET u == TestUser
        reset == users[u].last_spin_reset # today
        free == IF reset THEN FREE_SPINS_DAILY ELSE users[u].free_spins
    IN IF use_free_spin /\ free <= 0 THEN Reject("spin", u, 400)
       ELSE IF ~use_free_spin /\ buy_spin /\ Insufficient(users[u].balance, Naira(SPIN_COST))
       THEN Reject("spin", u, 400)
       ELSE /\ Len(txs) < MaxTx
            /\ SpinCommit(u, users[u], free, use_free_spin, buy_spin,
                          server_seed, client_seed, SpinCount(u) + 1)
            /\ UNCHANGED <<today, reqs, recent_questions>>

(* cost of a package of spins *)
SpinsCost(quantity) ==
    IF quantity = 10 THEN Naira(500)
    ELSE IF quantity = 25 THEN Naira(1000)
    ELSE IF quantity = 50 THEN Naira(1500)
    ELSE quantity * Naira(50)

buy_spins(quantity) ==
    LET u == TestUser
        cost == SpinsCost(quantity)
    IN IF Insufficient(users[u].balance, cost) THEN Reject("buy_spins", u, 400)
       ELSE /\ Len(txs) < MaxTx
            /\ users' = [users EXCEPT ![u].balance = @ - cost,
                                      ![u].free_spins = @ + quantity]
            /\ txs' = Append(txs, Tx(u, 0, <<"BUYSPIN", Len(txs) + 1>>, "spin_purchase",
                                     cost, 0, "completed"))
            /\ resp' = Reply("buy_spins", u, 200)
            /\ UNCHANGED <<games, spins, qstats, today, reqs, recent_questions>>

(* ------------------------------- wallet -------------------------------- *)
initialize_deposit(u, amount) ==
    IF amount = 0 THEN Reject("init_deposit", u, 400)
    ELSE IF amount < Naira(MIN_DEPOSIT) THEN Reject("init_deposit", u, 400)
    ELSE /\ Len(txs) < MaxTx
         /\ txs' = Append(txs, Tx(u, 0, <<"DEP", Len(txs) + 1>>, "deposit", amount, 0,
                                  "pending"))
         /\ resp' = Reply("init_deposit", u, 200)
         /\ UNCHANGED <<users, games, spins, qstats, today, reqs, recent_questions>>

TxByRef(ref) == CHOOSE i \in 1..Len(txs) : txs[i].reference = ref

(* a verification that credits whatever the stored status is *)
verify_deposit_again(u, ref, gateway_ok) ==
    IF ~gateway_ok THEN Reject("verify_deposit", u, 400)
    ELSE IF ~RefTaken(ref) THEN Reject("verify_deposit", u, 404)
    ELSE /\ txs' = [txs EXCEPT ![TxByRef(ref)].status = "completed"]
         /\ users' = [users EXCEPT ![u].balance = @ + txs[TxByRef(ref)].amount]
         /\ resp' = Reply("verify_deposit", u, 200)
         /\ UNCHANGED <<games, spins, qstats, today, reqs, recent_questions>>

(* verify_deposit: gateway_ok is the gateway's answer for the reference *)
verify_deposit(u, ref, gateway_ok) ==
    IF ~gateway_ok THEN Reject("verify_deposit", u, 400)
    ELSE IF ~RefTaken(ref) THEN Reject("verify_deposit", u, 404)
    ELSE IF txs[TxByRef(ref)].status # "pending" THEN Reject("verify_deposit", u, 400)
    ELSE /\ txs' = [txs EXCEPT ![TxByRef(ref)].status = "completed"]
         /\ users' = [users EXCEPT ![u].balance = @ + txs[TxByRef(ref)].amount]
         /\ resp' = Reply("verify_deposit", u, 200)
         /\ UNCHANGED <<games, spins, qstats, today, reqs, recent_questions>>

(* paystack_webhook on a charge.success event: always answers 200 *)
paystack_webhook(ref) ==
    IF RefTaken(ref) /\ txs[TxByRef(ref)].status = "pending"
    THEN /\ txs' = [txs EXCEPT ![TxByRef(ref)].status = "completed"]
         /\ users' = [users EXCEPT ![txs[TxByRef(ref)].user_id].balance =
                                      @ + txs[TxByRef(ref)].amount]
         /\ resp' = Reply("webhook", None, 200)
         /\ UNCHANGED <<games, spins, qstats, today, reqs, recent_questions>>
    ELSE /\ resp' = Reply("webhook", None, 200)
         /\ UNCHANGED <<users, games, txs, spins, qstats, today, reqs, recent_questions>>

initialize_withdrawal(u, amount) ==
    IF amount = 0 THEN Reject("init_withdrawal", u, 400)
    ELSE IF amount < Naira(MIN_WITHDRAWAL) THEN Reject("init_withdrawal", u, 400)
    ELSE IF amount > Naira(MAX_WITHDRAWAL) THEN Reject("init_withdrawal", u, 400)
    ELSE IF Insufficient(users[u].balance, amount) THEN Reject("init_withdrawal", u, 400)
    ELSE /\ Len(txs) < MaxTx
         /\ txs' = Append(txs, Tx(u, 0, <<"WDR", Len(txs) + 1>>, "withdraw", amount, 0,
                                  "pending"))
         /\ users' = [users EXCEPT ![u].balance = @ - amount,
                                   ![u].total_withdrawn = @ + amount]
         /\ resp' = Reply("init_withdrawal", u, 200)
         /\ UNCHANGED <<games, spins, qstats, today, reqs, recent_questions>>

(* a settlement whose reject forgets the refund *)
process_transaction_no_refund(tid, action) ==
    IF tid \notin 1..Len(txs) THEN Reject("process", None, 404)
    ELSE IF txs[tid].type # "withdraw" THEN Reject("process", None, 400)
    ELSE IF txs[tid].status # "pending" THEN Reject("process", None, 400)
    ELSE IF action \in {"approve", "reject"}
    THEN /\ txs' = [txs EXCEPT ![tid].status =
                       IF action = "approve" THEN "completed" ELSE "failed"]
         /\ resp' = Reply("process", None, 200)
         /\ UNCHANGED <<users, games, spins, qstats, today, reqs, recent_questions>>
    ELSE Reject("process", None, 400)

(* admin_routes.process_transaction *)
process_transaction(tid, action) ==
    IF tid \notin 1..Len(txs) THEN Reject("process", None, 404)
    ELSE IF txs[tid].type # "withdraw" THEN Reject("process", None, 400)
    ELSE IF txs[tid].status # "pending" THEN Reject("process", None, 400)
    ELSE IF action = "approve"
    THEN /\ txs' = [txs EXCEPT ![tid].status = "completed"]
         /\ resp' = Reply("process", None, 200)
         /\ UNCHANGED <<users, games, spins, qstats, today, reqs, recent_questions>>
    ELSE IF action = "reject"
    THEN /\ txs' = [txs EXCEPT ![tid].status = "failed"]
         /\ users' = [users EXCEPT ![txs[tid].user_id].balance = @ + txs[tid].amount]
         /\ resp' = Reply("process", None, 200)
         /\ UNCHANGED <<games, spins, qstats, today, reqs, recent_questions>>
    ELSE Reject("process", None, 400)

(* ---------------------------- specifications --------------------------- *)
QuickStart == \E u \in Starters : quick_play_start(u)
LevelStart == \E u \in Starters, level \in LevelInputs, stake \in StakeInputs :
                 (level = "good" \/ stake = Naira(20)) /\ level_quiz_start(u, level, stake)
Submit == \E u \in Players, gid \in 0..(Len(games) + 1) :
            \E answers \in (IF gid \in 1..Len(games)
                            THEN Sheets(DOMAIN games[gid].question_data)
                            ELSE {<<>>, RepeatSheet(1, 1)}) :
               (u \in Starters \/ Score(answers) = Len(answers))
                 /\ quick_play_submit(u, gid, answers)
Adjusted == Cardinality({i \in 1..Len(txs) : txs[i].type = "admin_adjustment"})
Adjust == \E u \in Starters, amount \in AdminAmounts, action \in FundingActions :
             Adjusted < MaxAdjust /\ adjust_user_balance(u, amount, action)

Next == QuickStart \/ LevelStart \/ Submit \/ Adjust

Spec == Init /\ [][Next]_vars

(* The ledger: every handler that changes a balance, one request at a time *)
LedgerStakes == {Naira(20)}
LedgerAdminAmounts == {0, Naira(470)}
LAdjust == \E amount \in LedgerAdminAmounts, action \in AdminActions :
              adjust_user_balance("u1", amount, action)
LLevelStart == \E stake \in LedgerStakes : level_quiz_start("u1", "good", stake)
LQuickStart == quick_play_start("u1")
LSubmit == \E gid \in {g \in 1..Len(games) : games[g].game_type # "battle"} :
             \E answers \in {Sheet(DOMAIN games[gid].question_data, 10, 0)} :
                quick_play_submit("u1", gid, answers)
CreateBattle == \E stake \in LedgerStakes : create_battle("u1", stake, 2)
JoinBattle == \E gid \in 1..Len(games) : join_battle("u2", gid)
Spin == \E use_free_spin \in BOOLEAN, buy_spin \in BOOLEAN :
          \E server_seed \in ServerSeeds, client_seed \in ClientSeeds :
             spin_wheel(use_free_spin, buy_spin, server_seed, client_seed)
BuySpins == \E quantity \in {1, 10} : buy_spins(quantity)
InitDeposit == \E amount \in {Naira(50)} : initialize_deposit("u1", amount)
VerifyDeposit == \E i \in 1..Len(txs), gateway_ok \in BOOLEAN :
                    verify_deposit("u1", txs[i].reference, gateway_ok)
Webhook == \E i \in 1..Len(txs) : paystack_webhook(txs[i].reference)
InitWithdrawal == \E amount \in {Naira(500)} : initialize_withdrawal("u1", amount)
ProcessTransaction == \E tid \in 1..Len(txs), action \in {"approve", "reject"} :
                         process_transaction(tid, action)

NextLedger ==
    \/ LAdjust \/ LQuickStart \/ LLevelStart \/ LSubmit \/ CreateBattle \/ JoinBattle
    \/ Spin \/ BuySpins \/ InitDeposit \/ VerifyDeposit \/ Webhook
    \/ InitWithdrawal \/ ProcessTransaction

SpecLedger == Init /\ [][NextLedger]_vars


(* ------------------------------- claims -------------------------------- *)
Last(seq) == seq[Len(seq)]
Front(seq) == SubSeq(seq, 1, Len(seq) - 1)
StartOps == {"quick_start", "level_start"}

(* C1: a submit is accepted only on a session that is not yet completed:   *)
(* a second submit on the same session is rejected, so the session is      *)
(* settled once.                                                           *)
C1_SubmitSettlesOnce ==
    [][(resp'.op = "submit" /\ resp'.code = 200)
         => games[resp'.game].status # "completed"]_vars

(* C7: every rejected start or submit leaves every account, every session  *)
(* and the transactions unchanged.                                         *)
C7_RejectedChangesNothing ==
    [][(resp'.op \in StartOps \cup {"submit"} /\ resp'.code # 200)
         => (users' = users /\ games' = games /\ txs' = txs)]_vars

(* a quick start (stake 100) refused at balance 50 *)
C7_Witness ==
    /\ resp.op = "quick_start" /\ resp.code = 400
    /\ users["u1"].balance = Naira(50)

(* the multiplier of the spec's pay table, times ten *)
ClaimMult10(g) ==
    IF g.game_type = "quick" THEN 30
    ELSE CASE g.level = "good" -> 25 [] g.level = "smart" -> 45 [] g.level = "best" -> 65

(* C8: an accepted start debits exactly the stake, inserts exactly one     *)
(* completed stake transaction STAKE-<code> of that amount and exactly one *)
(* active session with total_pot = stake x multiplier, platform_fee =      *)
(* total_pot x 10% and one question-map entry per question, in one step.   *)
C8_StartAtomic ==
    [][(resp'.op \in StartOps /\ resp'.code = 200) =>
         LET gid == resp'.game
             g == games'[gid]
             u == g.created_by
             t == Last(txs')
         IN /\ gid = Len(games) + 1 /\ Front(games') = games
            /\ g.status = "active"
            /\ resp'.op = "quick_start" => g.stake = Naira(100)
            /\ g.total_pot * 10 = g.stake * ClaimMult10(g)
            /\ g.platform_fee * 10 = g.total_pot
            /\ Cardinality(DOMAIN g.question_data) = g.total_questions
            /\ g.total_questions = (IF g.game_type = "quick" THEN 10 ELSE 45)
            /\ users'[u].balance = users[u].balance - g.stake
            /\ \A v \in Users \ {u} : users'[v] = users[v]
            /\ Len(txs') = Len(txs) + 1 /\ Front(txs') = txs
            /\ t.user_id = u /\ t.reference = <<"STAKE", gid>> /\ t.type = "stake"
            /\ t.amount = g.stake /\ t.status = "completed" /\ t.game_id = gid]_vars

(* a 'good' session just started *)
C8_Witness ==
    /\ resp.op = "level_start" /\ resp.code = 200
    /\ games[resp.game].level = "good" /\ games[resp.game].status = "active"

(* C9: a quick session is won iff all its questions are answered           *)
(* correctly, a tiered session iff score >= required_correct.              *)
C9_LevelWinRule ==
    [][(resp'.op = "submit" /\ resp'.code = 200) =>
         LET g == games[resp'.game]
         IN resp'.won = (IF g.game_type = "quick"
                         THEN resp'.score = g.total_questions
                         ELSE resp'.score >= g.required_correct)]_vars

(* C10: a winning submit credits total_pot - platform_fee of the session   *)
(* with one completed win transaction WIN-<code> of that amount, adds it   *)
(* to total_earned, adds one win and sets winner_id; a losing submit       *)
(* leaves the balance and an unset winner_id as they are.                  *)
C10_WinCredit ==
    [][(resp'.op = "submit" /\ resp'.code = 200) =>
         LET gid == resp'.game
             g == games[gid]
             u == g.created_by
             prize == g.total_pot - g.platform_fee
         IN IF resp'.won
            THEN /\ users'[u].balance = users[u].balance + prize
                 /\ users'[u].total_earned = users[u].total_earned + prize
                 /\ users'[u].wins = users[u].wins + 1
                 /\ games'[gid].winner_id = u
                 /\ Len(txs') = Len(txs) + 1
                 /\ Last(txs').reference = <<"WIN", gid>>
                 /\ Last(txs').amount = prize /\ Last(txs').status = "completed"
            ELSE /\ users'[u].balance = users[u].balance
                 /\ games'[gid].winner_id = None]_vars

(* ------------------- handlers running concurrently --------------------- *)
(* Each handler reads its rows (the account in token_required, the game in *)
(* the handler), checks them, and later commits the values it computed     *)
(* from what it read; other handlers may commit in between.                *)
Load(w, r) ==
    /\ reqs' = [reqs EXCEPT ![w] = r]
    /\ UNCHANGED <<users, games, txs, spins, qstats, today, resp, recent_questions>>

Done(w) == reqs' = [reqs EXCEPT ![w] = Idle] /\ UNCHANGED <<today, recent_questions>>

RaceStakes == {Naira(20)}
RaceAdminAmounts == {Naira(470)}
RaceShuffles == {Rot(0)}
RaceLeftOut == {11}
RaceWithdrawals == {Naira(500)}

BeginLevelStart(w, u, level, stake) ==
    /\ reqs[w] = Idle
    /\ IF Insufficient(users[u].balance, stake) THEN Reject("level_start", u, 400)
       ELSE /\ Len(games) < MaxGames /\ Len(txs) < MaxTx
            /\ Load(w, [op |-> "level_start", user |-> u, su |-> users[u],
                        level |-> level, stake |-> stake])

CommitLevelStart(w) ==
    /\ reqs[w].op = "level_start"
    /\ Len(games) < MaxGames /\ Len(txs) < MaxTx
    /\ \E qs \in LevelDraws[reqs[w].level], pairs \in RaceShuffles :
         StartCommit("level_start", reqs[w].user, reqs[w].su,
                     LevelGame(reqs[w].user, reqs[w].level, reqs[w].stake, qs, pairs),
                     reqs[w].stake)
    /\ Done(w)

BeginQuickStart(w, u) ==
    /\ reqs[w] = Idle
    /\ IF Insufficient(users[u].balance, Naira(QUICK_STAKE))
       THEN Reject("quick_start", u, 400)
       ELSE /\ Len(games) < MaxGames /\ Len(txs) < MaxTx
            /\ Load(w, [op |-> "quick_start", user |-> u, su |-> users[u]])

CommitQuickStart(w) ==
    /\ reqs[w].op = "quick_start"
    /\ Len(games) < MaxGames /\ Len(txs) < MaxTx
    /\ \E qs \in {d \in QuickDraws : d \cap RaceLeftOut = {}},
          pairs \in RaceShuffles :
         StartCommit("quick_start", reqs[w].user, reqs[w].su,
                     QuickGame(reqs[w].user, qs, pairs), Naira(QUICK_STAKE))
    /\ Done(w)

BeginSubmit(w, u, gid, answers) ==
    /\ reqs[w] = Idle
    /\ IF games[gid].created_by # u THEN Reject("submit", u, 403)
       ELSE /\ users[u].games_played < MaxPlays
            /\ Load(w, [op |-> "submit", user |-> u, su |-> users[u], gid |-> gid,
                        sg |-> games[gid], answers |-> answers])

CommitSubmit(w) ==
    /\ reqs[w].op = "submit"
    /\ Score(reqs[w].answers) = 10 => Len(txs) < MaxTx
    /\ SubmitCommit(reqs[w].user, reqs[w].su, reqs[w].gid, reqs[w].sg, reqs[w].answers)
    /\ Done(w)

BeginWithdrawal(w, u, amount) ==
    /\ reqs[w] = Idle
    /\ IF Insufficient(users[u].balance, amount) THEN Reject("init_withdrawal", u, 400)
       ELSE /\ Len(txs) < MaxTx
            /\ Load(w, [op |-> "init_withdrawal", user |-> u, su |-> users[u],
                        amount |-> amount])

CommitWithdrawal(w) ==
    LET u == reqs[w].user
        amount == reqs[w].amount
    IN /\ reqs[w].op = "init_withdrawal"
       /\ Len(txs) < MaxTx
       /\ txs' = Append(txs, Tx(u, 0, <<"WDR", Len(txs) + 1>>, "withdraw", amount, 0,
                                "pending"))
       /\ users' = [users EXCEPT ![u].balance = reqs[w].su.balance - amount,
                                 ![u].total_withdrawn = reqs[w].su.total_withdrawn + amount]
       /\ resp' = Reply("init_withdrawal", u, 200)
       /\ UNCHANGED <<games, spins, qstats>>
       /\ Done(w)

RAdjust == \E amount \in RaceAdminAmounts : adjust_user_balance("u1", amount, "add")
RBeginLevelStart == \E w \in Workers, stake \in RaceStakes :
                       BeginLevelStart(w, "u1", "good", stake)
RCommitLevelStart == \E w \in Workers : CommitLevelStart(w)
RBeginQuickStart == \E w \in Workers : BeginQuickStart(w, "u1")
RCommitQuickStart == \E w \in Workers : CommitQuickStart(w)
RBeginSubmit == \E w \in Workers, u \in Starters :
                  \E gid \in 1..Len(games) :
                    \E answers \in {Sheet(DOMAIN games[gid].question_data, 10, 0),
                                    Sheet(DOMAIN games[gid].question_data, 9, 1)} :
                       BeginSubmit(w, u, gid, answers)
RCommitSubmit == \E w \in Workers : CommitSubmit(w)
RBeginWithdrawal == \E w \in Workers, amount \in RaceWithdrawals :
                       BeginWithdrawal(w, "u1", amount)
RCommitWithdrawal == \E w \in Workers : CommitWithdrawal(w)

NextRace ==
    \/ RAdjust
    \/ RBeginLevelStart \/ RCommitLevelStart
    \/ RBeginQuickStart \/ RCommitQuickStart
    \/ RBeginSubmit \/ RCommitSubmit
    \/ RBeginWithdrawal \/ RCommitWithdrawal

SpecRace == Init /\ [][NextRace]_vars

(* ---------------------- the fairness engine alone -------------------- *)
(* Two callers each hold a triple and call calculate_result on it; either  *)
(* may then have any triple verified against the prize a caller drew.      *)
(* Spins go on in between, so the calls are made in different states.      *)
FairServerSeeds == {1, 2, 3}
FairClientSeeds == {1, 2}
FairNonces == {1, 2}
FairTriples == FairServerSeeds \X FairClientSeeds \X FairNonces
NotDrawn == [prize |-> -1]
FairCall(t) == [op |-> "draw", triple |-> t, result |-> NotDrawn]

InitFair ==
    /\ users = [u \in Users |-> IF u = TestUser THEN NewTestUser ELSE NewUser]
    /\ today = 0
    /\ recent_questions = NoRecent
    /\ games = <<>>
    /\ txs = <<>>
    /\ spins = <<>>
    /\ qstats = [q \in QIds |-> NewStats]
    /\ resp = NoResp
    /\ reqs \in [Workers -> {FairCall(t) : t \in FairTriples}]

Draw(w) ==
    /\ reqs[w].result = NotDrawn
    /\ reqs' = [reqs EXCEPT ![w].result =
                   calculate_result(reqs[w].triple[1], reqs[w].triple[2], reqs[w].triple[3])]
    /\ UNCHANGED <<users, games, txs, spins, qstats, today, resp, recent_questions>>

Verify(t, v) ==
    /\ reqs[v].result # NotDrawn
    /\ resp' = [Reply("verify", None, 200) EXCEPT
                  !.args = t, !.drawn = reqs[v].triple, !.prize = reqs[v].result.prize,
                  !.is_valid = verify_spin(t[1], t[2], t[3], reqs[v].result.prize)]
    /\ UNCHANGED <<users, games, txs, spins, qstats, today, reqs, recent_questions>>

FDraw == \E w \in Workers : Draw(w)
FVerify == \E t \in FairTriples, v \in Workers : Verify(t, v)
FSpin == spin_wheel(TRUE, FALSE, 1, 1)

NextFair == FDraw \/ FVerify \/ FSpin

SpecFair == InitFair /\ [][NextFair]_vars

(* C11: calculate_result is a function of its three arguments alone: two   *)
(* calls on the same triple return the same prize, random number and hash  *)
(* whatever happened in between, a call changes no stored row, and         *)
(* verify_spin accepts the prize drawn for the very triple it is given.    *)
C11_Inv ==
    /\ \A w, v \in Workers :
          (reqs[w].result # NotDrawn /\ reqs[v].result # NotDrawn
             /\ reqs[w].triple = reqs[v].triple) => reqs[w].result = reqs[v].result
    /\ (resp.op = "verify" /\ resp.args = resp.drawn) => resp.is_valid

C12_AlteredTripleFails ==
    (resp.op = "verify" /\ resp.args # resp.drawn) => ~resp.is_valid

(* ------------------------ the prize table alone ------------------------ *)
(* Every value int(hash[:8], 16) % 10000 can take, mapped to its segment.  *)
RandomNumbers == 0..(10000 - 1)

InitWheel ==
    /\ users = [u \in Users |-> IF u = TestUser THEN NewTestUser ELSE NewUser]
    /\ today = 0
    /\ recent_questions = NoRecent
    /\ games = <<>>
    /\ txs = <<>>
    /\ spins = <<>>
    /\ qstats = [q \in QIds |-> NewStats]
    /\ resp \in {[NoResp EXCEPT !.args = <<r>>] : r \in RandomNumbers}
    /\ reqs = [w \in Workers |-> Idle]

SelectSegment ==
    /\ resp.op = "none"
    /\ resp' = [resp EXCEPT !.op = "segment",
                            !.prize = SegmentAt(resp.args[1], 1, 0).prize]
    /\ UNCHANGED <<users, games, txs, spins, qstats, today, reqs, recent_questions>>

NextWheel == SelectSegment

SpecWheel == InitWheel /\ [][NextWheel]_vars

(* the running bound after the first i segments *)
RECURSIVE Cumulative(_)
Cumulative(i) == IF i = 0 THEN 0 ELSE Cumulative(i - 1) + WHEEL_SEGMENTS[i].probability * 100

RECURSIVE TotalProbability(_)
TotalProbability(i) ==
    IF i = 0 THEN 0 ELSE TotalProbability(i - 1) + WHEEL_SEGMENTS[i].probability

(* the ranges of the pay table as the specification lists them *)
ClaimPrize(r) ==
    IF r <= 2999 THEN 10 ELSE IF r <= 5499 THEN 20 ELSE IF r <= 6999 THEN 50
    ELSE IF r <= 7999 THEN 100 ELSE IF r <= 8799 THEN 200 ELSE IF r <= 9299 THEN 500
    ELSE IF r <= 9699 THEN 1000 ELSE 2000

(* C13: for every random number 0..9999 the prize is that of the first     *)
(* segment whose cumulative bound exceeds it, which is the listed range;   *)
(* the probabilities sum to 100, the last bound is 10000 and no number     *)
(* reaches the fallback after the loop.                                    *)
C13_PrizeTable ==
    resp.op = "segment" =>
       LET r == resp.args[1]
           n == Len(WHEEL_SEGMENTS)
           first == CHOOSE i \in 1..n : r < Cumulative(i) /\ (i > 1 => r >= Cumulative(i - 1))
       IN /\ TotalProbability(n) = 100
          /\ Cumulative(n) = 10000
          /\ r < Cumulative(n)
          /\ resp.prize = WHEEL_SEGMENTS[first].prize
          /\ resp.prize = ClaimPrize(r)

(* the last number of the first range and the first of the second *)
C13_Witness == resp.op = "segment" /\ resp.args = <<3000>> /\ resp.prize = 20

(* ---------------------- spins running concurrently -------------------- *)
(* spin_wheel reads the account and counts the account's spin records for  *)
(* the nonce, then commits; another spin may commit in between.            *)
BeginSpin(w, use_free_spin, buy_spin, server_seed, client_seed) ==
    LET u == TestUser
        reset == users[u].last_spin_reset # today
        free == IF reset THEN FREE_SPINS_DAILY ELSE users[u].free_spins
    IN /\ reqs[w] = Idle
       /\ IF use_free_spin /\ free <= 0 THEN Reject("spin", u, 400)
          ELSE IF ~use_free_spin /\ buy_spin
                    /\ Insufficient(users[u].balance, Naira(SPIN_COST))
          THEN Reject("spin", u, 400)
          ELSE /\ Len(txs) < MaxTx
               /\ Load(w, [op |-> "spin", user |-> u, su |-> users[u], free |-> free,
                           use_free_spin |-> use_free_spin, buy_spin |-> buy_spin,
                           server_seed |-> server_seed, client_seed |-> client_seed,
                           nonce |-> SpinCount(u) + 1])

CommitSpin(w) ==
    /\ reqs[w].op = "spin"
    /\ Len(txs) < MaxTx
    /\ SpinCommit(reqs[w].user, reqs[w].su, reqs[w].free, reqs[w].use_free_spin,
                  reqs[w].buy_spin, reqs[w].server_seed, reqs[w].client_seed,
                  reqs[w].nonce)
    /\ Done(w)

(* GET /verify/<spin_id>: the triple is looked up in the latest spin_win   *)
(* transaction of the spin's account whose amount is the amount won        *)
SpinTxs(u, amount) ==
    {i \in 1..Len(txs) : txs[i].user_id = u /\ txs[i].type = "spin_win"
                           /\ txs[i].amount = amount}

Max(S) == CHOOSE x \in S : \A y \in S : y <= x

verify_spin_route(spin_id) ==
    IF spin_id \notin 1..Len(spins) THEN Reject("verify_route", None, 404)
    ELSE LET spin == spins[spin_id]
             found == SpinTxs(spin.user_id, spin.amount_won)
         IN IF found = {} THEN Reject("verify_route", None, 404)
            ELSE LET metadata == txs[Max(found)].metadata
                     is_valid == verify_spin(metadata.server_seed, metadata.client_seed,
                                             metadata.nonce, spin.amount_won \div 100)
                 IN /\ resp' = [Reply("verify_route", None, 200) EXCEPT
                                  !.game = spin_id, !.is_valid = is_valid,
                                  !.prize = spin.amount_won,
                                  !.args = IF is_valid
                                           THEN <<metadata.server_seed, metadata.client_seed,
                                                  metadata.nonce>>
                                           ELSE <<>>]
                    /\ UNCHANGED <<users, games, txs, spins, qstats, today, reqs, recent_questions>>

SpinSeeds == {1}
SBeginSpin == \E w \in Workers, use_free_spin \in BOOLEAN :
                 \E server_seed \in SpinSeeds, client_seed \in SpinSeeds :
                    BeginSpin(w, use_free_spin, ~use_free_spin, server_seed, client_seed)
SCommitSpin == \E w \in Workers : CommitSpin(w)
SVerifySpin == \E spin_id \in 1..(Len(spins) + 1) : verify_spin_route(spin_id)

NextSpin == SBeginSpin \/ SCommitSpin \/ SVerifySpin

SpecSpin == Init /\ [][NextSpin]_vars

(* the spin_win transactions of u, in commit order *)
SpinLog(u) ==
    LET Mine(t) == t.user_id = u /\ t.type = "spin_win" IN SelectSeq(txs, Mine)

(* C14: the nonces of an account's committed spins start at 1 and grow     *)
(* strictly in commit order, so no two spins of an account are drawn with  *)
(* the same nonce, however the requests interleave.                        *)
C14_NoncesIncrease ==
    \A u \in Users :
       LET log == SpinLog(u)
       IN /\ (Len(log) > 0 => log[1].metadata.nonce = 1)
          /\ \A i, j \in 1..Len(log) : i < j => log[i].metadata.nonce < log[j].metadata.nonce

(* C15: every spin record holds the triple it was drawn with, the triple   *)
(* reproduces the amount won, and a verification of a spin returns the     *)
(* triple of that spin.                                                    *)
C15_RecordKeepsTriple ==
    /\ \A i \in 1..Len(spins) :
          /\ spins[i].server_seed # None /\ spins[i].client_seed # None
          /\ spins[i].nonce # None
          /\ Naira(calculate_result(spins[i].server_seed, spins[i].client_seed,
                                    spins[i].nonce).prize) = spins[i].amount_won
    /\ (resp.op = "verify_route" /\ resp.code = 200) =>
          LET m == SpinLog(spins[resp.game].user_id)[
                      Cardinality({k \in 1..resp.game :
                                     spins[k].user_id = spins[resp.game].user_id})].metadata
          IN resp.is_valid /\ resp.args = <<m.server_seed, m.client_seed, m.nonce>>

(* ------------------------- question service --------------------------- *)
(* the four options of a question, in the order option_a .. option_d *)
Options(q) == [i \in 1..4 |-> <<q, i - 1>>]

Range(f) == {f[i] : i \in DOMAIN f}

(* every order of n different elements of S: order_by(random()).limit(n)   *)
RECURSIVE Arrangements(_, _)
Arrangements(S, n) ==
    IF n = 0 THEN {<<>>}
    ELSE UNION {{Append(a, x) : x \in S \ Range(a)} : a \in Arrangements(S, n - 1)}

(* every permutation random.shuffle may leave the four pairs in *)
AllPerms == {p \in [1..4 -> 0..3] : Range(p) = 0..3}

Min(a, b) == IF a < b THEN a ELSE b

(* seq[-n:] *)
LastN(seq, n) == SubSeq(seq, Len(seq) - Min(n, Len(seq)) + 1, Len(seq))

(* QuestionService._shuffle_question, with the order pairs the shuffle left *)
shuffle_question(q, pairs) ==
    [id |-> q,
     options |-> [i \in 1..4 |-> Options(q)[pairs[i] + 1]],
     original_correct |-> Question(q).correct_answer,
     shuffled_correct |-> NewCorrect(pairs, Question(q).correct_answer)]

(* a sample that may take a candidate twice *)
Sample_choices(candidates, k) ==
    {[i \in 1..k |-> candidates[pos[i]]] : pos \in [1..k -> 1..Len(candidates)]}

(* random.sample(candidates, k): k different positions, in any order *)
Sample(candidates, k) ==
    {[i \in 1..k |-> candidates[pos[i]]] : pos \in Arrangements(1..Len(candidates), k)}

(* query.order_by(random()).limit(n).all() over the rows in S *)
RandomRows(S, n) == Arrangements(S, Min(n, Cardinality(S)))

(* the list an account is tracked with, or none *)
RecentOf(u) == IF u \in DOMAIN recent_questions THEN recent_questions[u] ELSE <<>>

(* a history that is never cut *)
Track_uncut(recent, u, ids) ==
    [v \in DOMAIN recent \cup (IF ids = <<>> THEN {} ELSE {u}) |->
       IF v = u THEN (IF u \in DOMAIN recent THEN recent[u] ELSE <<>>) \o ids
       ELSE recent[v]]

Track(recent, u, ids) ==
    [v \in DOMAIN recent \cup (IF ids = <<>> THEN {} ELSE {u}) |->
       IF v = u THEN LastN((IF u \in DOMAIN recent THEN recent[u] ELSE <<>>) \o ids, 100)
       ELSE recent[v]]

get_questions_for_game(user_id, level, count, avoid_recent) ==
    LET pool == ActiveOfLevel(level)
        recent_ids == IF avoid_recent /\ user_id \in DOMAIN recent_questions
                      THEN LastN(recent_questions[user_id], 50) ELSE <<>>
        filtered == pool \ Range(recent_ids)
        fetch_count == Min(count * 3, 500)
    IN \E first \in RandomRows(filtered, fetch_count) :
         \E candidates \in (IF Len(first) < count THEN RandomRows(pool, count * 2)
                            ELSE {first}) :
           \E selected \in Sample(candidates, Min(count, Len(candidates))) :
             \E perms \in [1..Len(selected) -> ShufflePerms] :
               /\ resp' = [Reply("get_questions", user_id, 200) EXCEPT
                             !.args = <<user_id, level, count>>,
                             !.questions = [i \in 1..Len(selected) |->
                                              shuffle_question(selected[i], perms[i])]]
               /\ recent_questions' = Track(recent_questions, user_id, selected)
               /\ UNCHANGED <<users, games, txs, spins, qstats, today, reqs>>

QGet == \E u \in Starters, count \in 1..3, avoid_recent \in BOOLEAN :
           /\ Len(RecentOf(u)) < MaxRecent
           /\ get_questions_for_game(u, "smart", count, avoid_recent)
QShuffle == \E q \in 1..4, pairs \in AllPerms :
              /\ resp' = [Reply("shuffle", None, 200) EXCEPT
                            !.questions = <<shuffle_question(q, pairs)>>]
              /\ UNCHANGED <<users, games, txs, spins, qstats, today, reqs,
                             recent_questions>>
QStart == \E level \in {"good", "smart"} : level_quiz_start("u1", level, Naira(20))

NextQuestions == QGet \/ QShuffle \/ QStart

SpecQuestions == Init /\ [][NextQuestions]_vars

(* C16: the question ids one selection returns are pairwise distinct,      *)
(* whatever the recency list holds, and a started session maps as many     *)
(* different ids as it has questions.                                      *)
C16_DistinctQuestions ==
    /\ resp.op = "get_questions" =>
          \A i, j \in 1..Len(resp.questions) :
             i # j => resp.questions[i].id # resp.questions[j].id
    /\ \A g \in 1..Len(games) :
          Cardinality(DOMAIN games[g].question_data) = games[g].total_questions

(* a selection of two questions for an account that is already tracked *)
C16_Witness ==
    /\ resp.op = "get_questions" /\ Len(resp.questions) = 2
    /\ Len(RecentOf("u1")) > 2

(* C17: the shuffled options are a permutation of the four original ones,  *)
(* the option at shuffled_correct is the one that stood at the original    *)
(* correct index, and the original correct index is handed on unchanged.   *)
C17_ShuffleKeepsAnswer ==
    /\ \A i \in 1..Len(resp.questions) :
          LET d == resp.questions[i]
          IN /\ Range(d.options) = Range(Options(d.id))
             /\ \A a, b \in 1..4 : a # b => d.options[a] # d.options[b]
             /\ d.original_correct = Question(d.id).correct_answer
             /\ d.shuffled_correct \in 0..3
             /\ d.options[d.shuffled_correct + 1] = Options(d.id)[d.original_correct + 1]
    /\ \A g \in 1..Len(games) : \A q \in DOMAIN games[g].question_data :
          /\ games[g].question_data[q].correct = Question(q).correct_answer
          /\ games[g].question_data[q].shuffled \in 0..3

(* a shuffle that moved the correct option *)
C17_Witness ==
    /\ resp.op = "shuffle"
    /\ resp.questions[1].shuffled_correct # resp.questions[1].original_correct

(* A start that finds fewer active questions than the session needs      *)
(* answers 500 and leaves accounts, sessions and transactions as they were *)
C18_StartRefused ==
    [][(resp'.op = "level_start" /\ resp'.code = 500)
          => UNCHANGED <<users, games, txs>>]_vars

(* C18: a selection that answers with a question list answers with exactly *)
(* as many questions as were requested; with fewer active questions of the *)
(* level than requested it never hands back a shorter list.                *)
C18_CapacityError ==
    (resp.op = "get_questions" /\ resp.code = 200)
        => Len(resp.questions) = resp.args[3]

(* -------------------------- ledger claims ------------------------------ *)
CreditTypes == {"win", "deposit", "spin_win", "refund"}
DebitTypes == {"stake", "withdraw", "spin_purchase"}

(* what a transaction row says about its owner's balance: completed        *)
(* credits add, completed debits and pending withdrawals subtract          *)
Signed(t) ==
    IF t.status = "completed" /\ t.type \in CreditTypes THEN t.amount
    ELSE IF t.status = "completed" /\ t.type \in DebitTypes THEN 0 - t.amount
    ELSE IF t.status = "pending" /\ t.type = "withdraw" THEN 0 - t.amount
    ELSE IF t.status = "completed" /\ t.type = "admin_adjustment"
         THEN (IF t.metadata.action = "add" THEN t.amount ELSE 0 - t.amount)
    ELSE 0

RECURSIVE LedgerSum(_, _)
LedgerSum(u, n) ==
    IF n = 0 THEN 0
    ELSE LedgerSum(u, n - 1) + (IF txs[n].user_id = u THEN Signed(txs[n]) ELSE 0)

(* the balance an account is created with, which no transaction records *)
Opening(u) == IF u = TestUser THEN Naira(TEST_USER_BALANCE) ELSE Naira(WELCOME_BONUS)

(* C3: every account's balance is its opening balance plus its completed   *)
(* credits minus its completed debits and its pending withdrawals.          *)
C3_LedgerConservation ==
    \A u \in Users : users[u].balance = Opening(u) + LedgerSum(u, Len(txs))

DebitOps == {"quick_start", "level_start", "create_battle", "join_battle",
             "buy_spins", "init_withdrawal"}

C4_DebitStep ==
    /\ (resp'.op \in DebitOps /\ resp'.code \in {200, 201}) =>
          LET t == Last(txs')
          IN /\ Len(txs') = Len(txs) + 1
             /\ users[t.user_id].balance >= t.amount
             /\ users'[t.user_id].balance = users[t.user_id].balance - t.amount
    /\ (resp'.op = "adjust" /\ resp'.code = 200 /\ Len(txs') = Len(txs) + 1
          /\ Last(txs').metadata.action = "deduct") =>
          LET t == Last(txs')
          IN /\ users[t.user_id].balance >= t.amount
             /\ users'[t.user_id].balance = users[t.user_id].balance - t.amount
    /\ \A ss \in ServerSeeds, cs \in ClientSeeds :
          (spin_wheel(FALSE, TRUE, ss, cs) /\ resp'.code = 200) =>
             /\ users[TestUser].balance >= Naira(50)
             /\ users'[TestUser].balance = users[TestUser].balance - Naira(50) + resp'.prize
    /\ (resp'.op \in DebitOps \cup {"adjust", "spin"} /\ resp'.code \notin {200, 201}) =>
          users' = users

(* C4: no balance is ever negative, and every debit is refused when the    *)
(* balance is below the amount and otherwise takes exactly the amount.     *)
C4_NoNegativeBalance ==
    [](\A u \in Users : users[u].balance >= 0) /\ [][C4_DebitStep]_vars

(* a withdrawal of the whole balance was reserved *)
C4_Witness ==
    /\ resp.op = "init_withdrawal" /\ resp.code = 200
    /\ users["u1"].balance = 0

(* the transactions of u that a step inserted or changed *)
Touched(u) ==
    {i \in 1..Len(txs') : /\ txs'[i].user_id = u
                          /\ (i > Len(txs) \/ txs'[i] # txs[i])}

Abs(x) == IF x < 0 THEN 0 - x ELSE x

(* C6: every step that changes a balance records exactly one transaction   *)
(* of that account for the amount of the change.                           *)
C6_OneTransactionPerChange ==
    [][\A u \in Users :
         users'[u].balance # users[u].balance =>
            /\ Cardinality(Touched(u)) = 1
            /\ \A i \in Touched(u) :
                  txs'[i].amount = Abs(users'[u].balance - users[u].balance)]_vars

(* ------------------------ concurrency claims --------------------------- *)
(* C2: of two submits racing on one active session, the one that commits   *)
(* after the session was completed by the other changes no account and     *)
(* records no transaction.                                                 *)
C2_RaceLoserChangesNothing ==
    [][\A w \in Workers :
         (/\ reqs[w].op = "submit" /\ reqs'[w] = Idle
          /\ reqs[w].sg.status = "active"
          /\ games[reqs[w].gid].status = "completed")
         => (users' = users /\ txs' = txs)]_vars

(* C5: concurrent debits of one account act as atomic read-modify-writes:  *)
(* no balance is negative and every balance is the opening balance plus    *)
(* the credits minus the debits that succeeded: no accepted debit is       *)
(* missing from the balance.                                               *)
C5_NoLostDebit ==
    \A u \in Players :
       /\ users[u].balance >= 0
       /\ users[u].balance - Opening(u) <= LedgerSum(u, Len(txs))

(* ------------------------- withdrawal settlement ----------------------- *)
(* funding, reservation and settlement of withdrawals, one request at a    *)
(* time                                                                    *)
WithdrawAmounts == {Naira(500), Naira(520)}
WithdrawFunds == {Naira(470), Naira(990)}
SettleActions == {"approve", "reject", "bogus"}
WFund == \E u \in Players, amount \in WithdrawFunds : adjust_user_balance(u, amount, "add")
WReserve == \E u \in Users, amount \in WithdrawAmounts : initialize_withdrawal(u, amount)
WSettle == \E tid \in 0..(Len(txs) + 1), action \in SettleActions :
              process_transaction(tid, action)

NextWithdraw == WFund \/ WReserve \/ WSettle

SpecWithdraw == Init /\ [][NextWithdraw]_vars

RECURSIVE Funded(_, _)
Funded(u, n) ==
    IF n = 0 THEN 0
    ELSE Funded(u, n - 1)
           + (IF txs[n].user_id = u /\ txs[n].type = "admin_adjustment"
              THEN txs[n].amount ELSE 0)

(* the withdrawals of u that still hold their amount: pending or completed *)
RECURSIVE Held(_, _)
Held(u, n) ==
    IF n = 0 THEN 0
    ELSE Held(u, n - 1)
           + (IF txs[n].user_id = u /\ txs[n].type = "withdraw"
                 /\ txs[n].status \in {"pending", "completed"}
              THEN txs[n].amount ELSE 0)

C19_SettleStep ==
    (resp'.op = "process" /\ resp'.code = 200) =>
       \E tid \in 1..Len(txs) :
          LET t == txs[tid]
          IN /\ t.type = "withdraw" /\ t.status = "pending"
             /\ txs'[tid].status \in {"completed", "failed"}
             /\ txs' = [txs EXCEPT ![tid].status = txs'[tid].status]
             /\ txs'[tid].status = "completed" => users' = users
             /\ txs'[tid].status = "failed" =>
                   users' = [users EXCEPT ![t.user_id].balance = @ + t.amount]

(* C19: settling a pending withdrawal changes its status and the balance   *)
(* in one step: approve makes it completed and leaves every balance alone, *)
(* reject makes it failed and adds exactly its amount to the owner's       *)
(* balance; so a rejected reservation holds nothing any more and the       *)
(* balance is what it was before the reservation.                          *)
C19_SettleWithdrawal ==
    /\ [](\A u \in Users :
            users[u].balance = Opening(u) + Funded(u, Len(txs)) - Held(u, Len(txs)))
    /\ [][C19_SettleStep]_vars

(* a reserved withdrawal was rejected and the balance is the opening one *)
C19_Witness ==
    /\ resp.op = "process" /\ resp.code = 200
    /\ \E tid \in 1..Len(txs) :
          /\ txs[tid].type = "withdraw" /\ txs[tid].status = "failed"
          /\ users[txs[tid].user_id].balance = Opening(txs[tid].user_id)

(* --------------------------- transaction status ------------------------ *)
(* deposits and withdrawals with every call that settles them, one request *)
(* at a time                                                               *)
StatusDeposits == {Naira(50)}
StatusWithdrawals == {Naira(500)}
TDeposit == \E u \in Players, amount \in StatusDeposits : initialize_deposit(u, amount)
TVerify == \E u \in Players, i \in 1..Len(txs), gateway_ok \in BOOLEAN :
              verify_deposit(u, txs[i].reference, gateway_ok)
TWebhook == \E i \in 1..Len(txs) : paystack_webhook(txs[i].reference)
TReserve == \E u \in Users, amount \in StatusWithdrawals : initialize_withdrawal(u, amount)
TProcess == \E tid \in 1..Len(txs), action \in {"approve", "reject"} :
               process_transaction(tid, action)

NextStatus == TDeposit \/ TVerify \/ TWebhook \/ TReserve \/ TProcess

SpecStatus == Init /\ [][NextStatus]_vars

Settled(t) == t.status \in {"completed", "failed"}

C20_StatusStep ==
    /\ Len(txs') >= Len(txs)
    /\ \A i \in 1..Len(txs) :
          /\ txs'[i].status # txs[i].status =>
                txs[i].status = "pending" /\ Settled(txs'[i])
          /\ Settled(txs[i]) => txs'[i] = txs[i]
    /\ \A i \in 1..Len(txs) : Settled(txs[i]) =>
          /\ \A action \in {"approve", "reject"} :
                process_transaction(i, action) =>
                   resp'.code = 400 /\ UNCHANGED <<users, txs>>
          /\ \A u \in Players :
                verify_deposit(u, txs[i].reference, TRUE) =>
                   resp'.code = 400 /\ UNCHANGED <<users, txs>>
          /\ paystack_webhook(txs[i].reference) => UNCHANGED <<users, txs>>
    /\ (resp'.op \in {"process", "verify_deposit", "webhook"} /\ users' # users) =>
          \E i \in 1..Len(txs), u \in Users :
             /\ txs[i].status = "pending" /\ Settled(txs'[i])
             /\ users' = [users EXCEPT ![u].balance = @ + txs[i].amount]

(* C20: a transaction's status moves only from pending to completed or to  *)
(* failed, and only once: a settled transaction is never changed again,    *)
(* and a verification, webhook or processing call on it changes no status  *)
(* and no balance (verification and processing answer 400).                *)
C20_StatusOneWay == [][C20_StatusStep]_vars

(* a processing call on withdrawals that were all settled before *)
C20_Witness ==
    /\ resp.op = "process" /\ resp.code = 400
    /\ Len(txs) > 0
    /\ \A i \in 1..Len(txs) : txs[i].type = "withdraw" /\ Settled(txs[i])

(* -------------------------------- battles ------------------------------ *)
(* create, join and quit of battle sessions, one request at a time         *)
BattleStakes == {0, Naira(10), 0 - Naira(10)}
BattleSizes == {1, 2}
BCreate == \E u \in Starters, stake \in BattleStakes, max_players \in BattleSizes :
              create_battle(u, stake, max_players)
BJoin == \E u \in Players, gid \in 0..(Len(games) + 1) : join_battle(u, gid)
BQuit == \E u \in Players, gid \in 0..(Len(games) + 1) : quit_battle(u, gid)

NextBattle == BCreate \/ BJoin \/ BQuit

SpecBattle == Init /\ [][NextBattle]_vars

C21_JoinStep ==
    /\ (resp'.op = "join_battle" /\ resp'.code = 200) =>
          LET gid == resp'.game
              t == Last(txs')
              u == t.user_id
          IN /\ games[gid].status = "waiting"
             /\ games[gid].current_players < games[gid].max_players
             /\ users[u].balance >= games[gid].stake
             /\ txs' = Append(txs, t)
             /\ t.type = "stake" /\ t.status = "completed" /\ t.game_id = gid
             /\ t.amount = games[gid].stake
             /\ users'[u].balance = users[u].balance - games[gid].stake
             /\ \A v \in Users \ {u} : users'[v] = users[v]
             /\ games'[gid].current_players = games[gid].current_players + 1
             /\ games'[gid].status =
                   IF games'[gid].current_players = games[gid].max_players
                   THEN "ready" ELSE "waiting"
             /\ games' = [games EXCEPT ![gid].current_players = games'[gid].current_players,
                                       ![gid].status = games'[gid].status]
    /\ (resp'.op = "join_battle" /\ resp'.code # 200) =>
          UNCHANGED <<users, games, txs>>

(* C21: an accepted join found the session waiting, below its capacity and *)
(* the joiner's balance at or above the stake; it takes exactly the stake  *)
(* with one completed stake transaction, adds one player and makes the     *)
(* session ready exactly when the count reaches max_players; a refused     *)
(* join changes nothing.                                                   *)
C21_JoinBattle == [][C21_JoinStep]_vars

(* a join that filled the session *)
C21_Witness ==
    /\ resp.op = "join_battle" /\ resp.code = 200
    /\ games[resp.game].status = "ready"
    /\ games[resp.game].current_players = 2

(* ---------------------------- session status --------------------------- *)
(* level and battle sessions under start, create, join, quit and submit,   *)
(* one request at a time                                                   *)
SessionStakes == {Naira(10)}
SessionSheets == {RepeatSheet(1, 1), RepeatSheet(1, 10)}
GLevelStart == \E stake \in SessionStakes : level_quiz_start("u1", "good", stake)
GCreate == \E stake \in SessionStakes : create_battle("u1", stake, 2)
GJoin == \E gid \in 1..Len(games) : join_battle("u2", gid)
GQuit == \E gid \in {g \in 1..Len(games) : games[g].game_type = "battle"} :
            quit_battle("u2", gid)
GSubmit == \E gid \in 1..Len(games), answers \in SessionSheets :
              quick_play_submit("u1", gid, answers)

NextSession == GLevelStart \/ GCreate \/ GJoin \/ GQuit \/ GSubmit

SpecSession == Init /\ [][NextSession]_vars

StatusRank(status) ==
    IF status = "waiting" THEN 1
    ELSE IF status = "ready" THEN 2
    ELSE IF status = "active" THEN 3
    ELSE 4

C22_SessionStep ==
    /\ Len(games') >= Len(games)
    /\ \A g \in 1..Len(games) :
          /\ StatusRank(games'[g].status) >= StatusRank(games[g].status)
          /\ games[g].status \in {"completed", "quit"} =>
                games'[g].status = games[g].status
          /\ games'[g].question_data = games[g].question_data

(* C22: over starts, creates, joins, quits and submits a session's status  *)
(* never moves backwards (waiting, ready, active, then completed or quit), *)
(* a completed or quit session keeps its status for ever, and the question *)
(* map of a session is never changed after the session was created.        *)
C22_StatusMonotonic == [][C22_SessionStep]_vars

(* a join refused on a battle session that a submit had completed *)
C22_Witness ==
    /\ resp.op = "join_battle" /\ resp.code = 400
    /\ \E g \in 1..Len(games) :
          games[g].game_type = "battle" /\ games[g].status = "completed"
    /\ \E g \in 1..Len(games) :
          games[g].game_type = "level" /\ games[g].question_data # <<>>

(* -------------------------------- grading ------------------------------ *)
(* QuestionService.verify_answer: question_data is not looked at *)
verify_answer(question_id, user_answer, question_data) ==
    IF question_id \notin QIds THEN FALSE
    ELSE user_answer = Question(question_id).correct_answer

(* the first n questions of the map m answered with the shuffled index     *)
ShuffledSheet(m, n) ==
    LET order == SortedSeq(DOMAIN m)
    IN [i \in 1..n |-> [question_id |-> order[i], answer_index |-> m[order[i]].shuffled]]

(* an answer list whose entries also carry a correctness value of the client *)
Claimed(answers, v) ==
    [i \in DOMAIN answers |->
       [question_id |-> answers[i].question_id,
        answer_index |-> answers[i].answer_index, is_correct |-> v]]

GradeSheets(m) ==
    {Claimed(ShuffledSheet(m, n), TRUE) : n \in {1, 10}}
      \cup {Claimed(Sheet(DOMAIN m, sh[1], sh[2]), v) :
              sh \in {<<2, 1>>}, v \in BOOLEAN}

GradeQuestions == {101, 999}
GradeChoices == {1, 2}
AStart == level_quiz_start("u1", "good", Naira(10))
ASubmit == \E gid \in 1..Len(games) :
              \E answers \in GradeSheets(games[gid].question_data) :
                 quick_play_submit("u1", gid, answers)
AVerify == \E gid \in 1..Len(games), q \in GradeQuestions, a \in GradeChoices :
              /\ resp' = [Reply("verify_answer", None, 200) EXCEPT
                            !.args = <<q, a>>,
                            !.is_valid = verify_answer(q, a, games[gid].question_data)]
              /\ UNCHANGED <<users, games, txs, spins, qstats, today, reqs,
                             recent_questions>>

NextGrade == AStart \/ ASubmit \/ AVerify

SpecGrade == Init /\ [][NextGrade]_vars

(* the answers that carry the original correct index of their question *)
RightAnswers(answers) ==
    {i \in DOMAIN answers :
        /\ answers[i].question_id \in QIds
        /\ answers[i].answer_index = Question(answers[i].question_id).correct_answer}

C23_GradeStep ==
    \A gid \in 1..Len(games) :
       \A answers \in GradeSheets(games[gid].question_data) :
          (quick_play_submit("u1", gid, answers) /\ resp'.code = 200) =>
              resp'.score = Cardinality(RightAnswers(answers))

Seen(k) == <<201>> \o [i \in 1..k |-> 101 + ((i - 1) % 45)]
RecentSeeds == {Seen(49), Seen(50), Seen(98), Seen(99)}
RecentCounts == {1, 2, 3}
SmartSeen(u) == Cardinality({i \in 1..Len(RecentOf(u)) : RecentOf(u)[i] \in SmartIds})

InitRecent ==
    /\ users = [u \in Users |-> IF u = TestUser THEN NewTestUser ELSE NewUser]
    /\ today = 0
    /\ recent_questions \in {NoRecent} \cup {[u \in {"u1"} |-> seed] : seed \in RecentSeeds}
    /\ games = <<>>
    /\ txs = <<>>
    /\ spins = <<>>
    /\ qstats = [q \in QIds |-> NewStats]
    /\ resp = NoResp
    /\ reqs = [w \in Workers |-> Idle]

HGet == \E count \in RecentCounts, avoid_recent \in BOOLEAN :
           /\ SmartSeen("u1") < MaxRecent
           /\ get_questions_for_game("u1", "smart", count, avoid_recent)

NextRecent == HGet

SpecRecent == InitRecent /\ [][NextRecent]_vars

Ids(qs) == [i \in 1..Len(qs) |-> qs[i].id]

C24_SelectStep ==
    \A count \in RecentCounts, avoid_recent \in BOOLEAN :
       get_questions_for_game("u1", "smart", count, avoid_recent) =>
          LET old == RecentOf("u1")
              ids == Ids(resp'.questions)
              all == old \o ids
              new == recent_questions'["u1"]
              excluded == IF avoid_recent
                          THEN {old[i] : i \in {j \in 1..Len(old) : j > Len(old) - 50}}
                          ELSE {}
              filtered == ActiveOfLevel("smart") \ excluded
          IN /\ Len(new) = (IF Len(all) > 100 THEN 100 ELSE Len(all))
             /\ \A i \in 1..Len(new) : new[i] = all[Len(all) - Len(new) + i]
             /\ \A i \in 1..Len(ids) : \E j \in 1..Len(new) : new[j] = ids[i]
             /\ Cardinality(filtered) >= count => \A i \in 1..Len(ids) : ids[i] \in filtered
             /\ \A i \in 1..Len(ids) : ids[i] \in ActiveOfLevel("smart")

(* C24: an account's recency list never holds more than 100 ids; a         *)
(* selection appends the selected ids in their order and drops the oldest  *)
(* ids beyond 100, so the ids of the latest call are all in the list; with *)
(* avoid_recent the selected questions are outside the last 50 ids of the  *)
(* list unless fewer than count questions are left outside them.           *)
C24_RecencyList ==
    /\ [](\A u \in DOMAIN recent_questions : Len(recent_questions[u]) <= 100)
    /\ [][C24_SelectStep]_vars

(* a list of 100 ids overflowed: both smart questions were selected and    *)
(* appended, and the two oldest ids (201 and 101) were dropped             *)
C24_Witness ==
    /\ resp.op = "get_questions" /\ Len(resp.questions) = 2
    /\ Len(RecentOf("u1")) = 100
    /\ RecentOf("u1")[1] = 102
    /\ {RecentOf("u1")[99], RecentOf("u1")[100]} = SmartIds

(* the questions of the session's map that the answer list answers *)
Answered(game, answers) ==
    {q \in DOMAIN game.question_data : \E i \in DOMAIN answers : answers[i].question_id = q}

(* C25: the score of a submit counts only questions of the submitted       *)
(* session's question map and each of them once: it is at most the number  *)
(* of different questions of the map that were answered, hence at most     *)
(* total_questions.                                                        *)
C25_ScoreWithinSession ==
    [][\A gid \in 1..Len(games) : \A answers \in SessionSheets :
          (quick_play_submit("u1", gid, answers) /\ resp'.code = 200) =>
             /\ resp'.score <= Cardinality(Answered(games[gid], answers))
             /\ resp'.score <= games[gid].total_questions]_vars

StakeOps == {"quick_start", "level_start", "create_battle", "join_battle"}

(* C26: every accepted stake-taking request (quick start, level start,     *)
(* battle create, battle join) takes a positive stake and leaves the       *)
(* staking account's balance strictly lower than it was.                   *)
C26_StakeLowersBalance ==
    [][(resp'.op \in StakeOps /\ resp'.code \in {200, 201}) =>
          LET t == Last(txs')
          IN /\ t.amount > 0
             /\ users'[t.user_id].balance < users[t.user_id].balance]_vars

(* the free spins the account has once the daily reset is applied *)
FreeSpinsToday(u) ==
    IF users[u].last_spin_reset # today THEN FREE_SPINS_DAILY ELSE users[u].free_spins

C27_SpinStep ==
    (resp'.op = "spin" /\ resp'.code = 200) =>
       \/ /\ FreeSpinsToday(TestUser) > 0
          /\ users'[TestUser].free_spins = FreeSpinsToday(TestUser) - 1
          /\ users'[TestUser].balance = users[TestUser].balance + resp'.prize
       \/ /\ users[TestUser].balance >= Naira(SPIN_COST)
          /\ users'[TestUser].free_spins = FreeSpinsToday(TestUser)
          /\ users'[TestUser].balance =
                users[TestUser].balance - Naira(SPIN_COST) + resp'.prize

(* C27: every successful spin either uses up exactly one free spin that    *)
(* was there or charges the spin cost of 50 to a balance of at least 50,   *)
(* whatever the use_free_spin and buy_spin flags are; free_spins is never  *)
(* negative.                                                               *)
C27_SpinPaidFor ==
    /\ [](\A u \in Users : users[u].free_spins >= 0)
    /\ [][C27_SpinStep]_vars

(* u has staked into session gid and is still in it *)
InBattle(u, gid) ==
    /\ \E i \in 1..Len(txs) :
          txs[i].user_id = u /\ txs[i].game_id = gid /\ txs[i].type = "stake"
    /\ users[u].current_game_id = gid

C28_QuitStep ==
    \A u \in Players, gid \in 1..Len(games) :
       (quit_battle(u, gid) /\ resp'.code = 200) =>
          /\ \A v \in Users : users'[v].balance = users[v].balance
          /\ games'[gid].current_players =
                IF InBattle(u, gid) THEN games[gid].current_players - 1
                ELSE games[gid].current_players

(* C28: a battle session always has between 0 and max_players players; a   *)
(* quit takes one off the count only for an account that staked into the   *)
(* session and has not quit it, and leaves the count alone otherwise; a    *)
(* quit changes no balance.                                                *)
C28_PlayerCount ==
    /\ [](\A g \in 1..Len(games) :
            games[g].game_type = "battle" =>
               (0 <= games[g].current_players
                  /\ games[g].current_players <= games[g].max_players))
    /\ [][C28_QuitStep]_vars

(* C29: an account's total_withdrawn is the sum of its withdrawals that    *)
(* are pending or completed; a rejected withdrawal is not counted in it.   *)
C29_TotalWithdrawn ==
    \A u \in Users : users[u].total_withdrawn = Held(u, Len(txs))

(* C30: a verification or webhook call that completes a pending deposit    *)
(* credits the deposit's amount once, to the account that owns the         *)
(* transaction, and changes no other account.                              *)
C30_DepositToOwner ==
    [][resp'.op \in {"verify_deposit", "webhook"} =>
          \A i \in 1..Len(txs) :
             (/\ txs[i].type = "deposit" /\ txs[i].status = "pending"
              /\ txs'[i].status = "completed")
             => users' = [users EXCEPT ![txs[i].user_id].balance = @ + txs[i].amount]]_vars

====
